---- MODULE Spec2Model ----
(***************************************************************************)
(* A model of abagen/utils.py: the label-volume, centroid, coordinate      *)
(* transform, nearest-centroid and neighbourhood helpers.                  *)
(*                                                                         *)
(* Every function of the file is a pure function.  A behaviour of the      *)
(* model is one invocation: Init draws the function and its arguments      *)
(* (call), the function's action computes what the invocation returns or   *)
(* raises (ret).  Two follow-up steps exist because the claims are about   *)
(* them: a caller feeding the result of ijk_to_xyz back to xyz_to_ijk, and *)
(* a caller pulling values from the generator expand_roi returned.         *)
(*                                                                         *)
(* Arrays are records [shape, data]: shape is the numpy shape (<<n>> or    *)
(* <<r, c>>), data the elements in row-major order.  A float is an exact   *)
(* rational <<n, d>> with d > 0 in lowest terms; <<0, 0>> is NaN.          *)
(***************************************************************************)
EXTENDS Integers, Sequences, FiniteSets, TLC

VARIABLES pc, call, ret, gen, pulled

vars == <<pc, call, ret, gen, pulled>>

(***************************************************************************)
(* Bounds of the model.                                                    *)
(***************************************************************************)
\* labelled (non-zero) voxels of a volume
MaxVoxels == 2
\* length of an explicit labels_of_interest list
MaxReq == 2
\* centroids handed to closest_centroid
MaxCentroids == 2
\* points of a coordinate batch
MaxN == 3
\* dilation of expand_roi
MaxDilation == 1

\* the shape of the label volumes
Shape == <<2, 2, 2>>
\* the non-zero values a voxel may carry
LabelValues == {-1, 1, 2}
\* the points coordinates are drawn from
PointSet == {<<0, 0, 0>>, <<1, 2, 3>>, <<-1, 0, 2>>}

(***************************************************************************)
(* Numbers.                                                                *)
(***************************************************************************)
Abs(x) == IF x < 0 THEN -x ELSE x

Min(a, b) == IF a < b THEN a ELSE b

RECURSIVE GCD(_, _)
GCD(a, b) == IF b = 0 THEN a ELSE GCD(b, a % b)

NaN == <<0, 0>>

IsNaN(q) == q[2] = 0

\* the float n / d; a division by zero of numpy floats gives NaN, with a
\* warning and no exception
Rat(n, d) ==
    IF d = 0 THEN NaN
    ELSE LET g == GCD(Abs(n), Abs(d))
             s == IF d < 0 THEN -1 ELSE 1
         IN  <<(s * n) \div g, (s * d) \div g>>

RInt(n) == <<n, 1>>

RAdd(p, q) ==
    IF IsNaN(p) \/ IsNaN(q) THEN NaN
    ELSE Rat(p[1] * q[2] + q[1] * p[2], p[2] * q[2])

RMulInt(k, q) == IF IsNaN(q) THEN NaN ELSE Rat(k * q[1], q[2])

RDivInt(q, k) == IF IsNaN(q) THEN NaN ELSE Rat(q[1], q[2] * k)

\* float -> int as ndarray.astype(int) does it: towards zero
Trunc(q) == IF q[1] >= 0 THEN q[1] \div q[2] ELSE -((-q[1]) \div q[2])

(***************************************************************************)
(* Arrays.                                                                 *)
(***************************************************************************)
Arr1(s) == [shape |-> <<Len(s)>>, data |-> s]

Arr2(r, c, s) == [shape |-> <<r, c>>, data |-> s]

NDim(a) == Len(a.shape)

NRows(a) == a.shape[1]

NCols(a) == a.shape[2]

At(a, i, j) == a.data[(i - 1) * NCols(a) + j]

\* a.T of a 2-D array
Transpose(a) ==
    LET r == NRows(a)
        c == NCols(a)
    IN  Arr2(c, r, [p \in 1..(r * c) |-> At(a, ((p - 1) % r) + 1, ((p - 1) \div r) + 1)])

\* np.atleast_2d: a 1-D array of length n becomes 1 x n
AtLeast2d(a) == IF NDim(a) = 1 THEN Arr2(1, a.shape[1], a.data) ELSE a

\* a[:n] of a 2-D array
FirstRows(a, n) ==
    LET r == Min(n, NRows(a))
    IN  Arr2(r, NCols(a), SubSeq(a.data, 1, r * NCols(a)))

\* row i / column j of a 2-D array, as a sequence
Row(a, i) == [j \in 1..NCols(a) |-> At(a, i, j)]

Col(a, j) == [i \in 1..NRows(a) |-> At(a, i, j)]

RECURSIVE Flatten(_)
Flatten(ss) == IF ss = <<>> THEN <<>> ELSE Head(ss) \o Flatten(Tail(ss))

Ok(v) == [ok |-> TRUE, val |-> v]

Err(e) == [ok |-> FALSE, err |-> e]

(***************************************************************************)
(* Label volumes: a volume maps every voxel index (0-based, as numpy) to   *)
(* its value; an image is a volume with its affine.                        *)
(***************************************************************************)
Voxels == (0..(Shape[1] - 1)) \X (0..(Shape[2] - 1)) \X (0..(Shape[3] - 1))

RECURSIVE VoxelSets(_)
VoxelSets(n) ==
    IF n = 0 THEN {{}}
    ELSE LET P == VoxelSets(n - 1)
         IN  P \cup {S \cup {x} : S \in P, x \in Voxels}

Volumes ==
    UNION {{[x \in Voxels |-> IF x \in S THEN f[x] ELSE 0] : f \in [S -> LabelValues]} :
           S \in VoxelSets(MaxVoxels)}

(***************************************************************************)
(* get_unique_labels                                                       *)
(***************************************************************************)
RECURSIVE SortAsc(_)
SortAsc(S) ==
    IF S = {} THEN <<>>
    ELSE LET m == CHOOSE m \in S : \A y \in S : m <= y
         IN  <<m>> \o SortAsc(S \ {m})

\* np.unique: the distinct values, ascending
Unique(data) == SortAsc({data[x] : x \in DOMAIN data})

RECURSIVE TrimFront(_)
TrimFront(s) == IF s # <<>> /\ s[1] = 0 THEN TrimFront(Tail(s)) ELSE s

RECURSIVE TrimBack(_)
TrimBack(s) ==
    IF s # <<>> /\ s[Len(s)] = 0 THEN TrimBack(SubSeq(s, 1, Len(s) - 1)) ELSE s

\* a trim that forgets the leading zeros
TrimBackOnly(s) == TrimBack(s)

\* np.trim_zeros: the leading and the trailing zeros go, inner ones stay
TrimZeros(s) == TrimBack(TrimFront(s))

GetUniqueLabels(image) ==
    LET t == TrimZeros(Unique(image.data))
    IN  [i \in 1..Len(t) |-> Trunc(RInt(t[i]))]

(***************************************************************************)
(* Affine matrices (integer entries, row-major) and linear algebra.        *)
(***************************************************************************)
\* the 4 x 4 matrix with linear part R (rows r1, r2, r3), translation t
\* and last row b
Mat4(r1, r2, r3, t, b) ==
    Arr2(4, 4, r1 \o <<t[1]>> \o r2 \o <<t[2]>> \o r3 \o <<t[3]>> \o b)

AffineRow == <<0, 0, 0, 1>>

IdentityAffine ==
    Mat4(<<1, 0, 0>>, <<0, 1, 0>>, <<0, 0, 1>>, <<0, 0, 0>>, AffineRow)

TranslationAffine ==
    Mat4(<<1, 0, 0>>, <<0, 1, 0>>, <<0, 0, 1>>, <<10, 20, 30>>, AffineRow)

ScaleAffine ==
    Mat4(<<2, 0, 0>>, <<0, 2, 0>>, <<0, 0, 2>>, <<1, 0, -1>>, AffineRow)

RotationAffine ==
    Mat4(<<0, -1, 0>>, <<1, 0, 0>>, <<0, 0, 1>>, <<-5, 0, 4>>, AffineRow)

ShearAffine ==
    Mat4(<<1, 1, 0>>, <<0, 1, 0>>, <<0, 0, 3>>, <<0, -2, 0>>, AffineRow)

\* singular: a zero row, and two equal rows
FlatAffine ==
    Mat4(<<1, 0, 0>>, <<0, 0, 0>>, <<0, 0, 1>>, <<0, 0, 0>>, AffineRow)

TwinAffine ==
    Mat4(<<1, 2, 0>>, <<1, 2, 0>>, <<0, 0, 1>>, <<3, 3, 0>>, AffineRow)

\* 4 x 4 and invertible, but its last row is not 0 0 0 1
ProjectiveMatrix ==
    Mat4(<<1, 0, 0>>, <<0, 1, 0>>, <<0, 0, 1>>, <<2, 0, 0>>, <<0, 0, 0, 2>>)

\* matrices that are not 4 x 4
Matrix3x4 == FirstRows(TranslationAffine, 3)

Matrix2x4 == FirstRows(TranslationAffine, 2)

Matrix3x3 == Arr2(3, 3, <<1, 0, 0, 0, 1, 0, 0, 0, 1>>)

Matrices ==
    {IdentityAffine, TranslationAffine, ScaleAffine, RotationAffine, ShearAffine,
     FlatAffine, TwinAffine, ProjectiveMatrix, Matrix3x4, Matrix2x4, Matrix3x3}

\* the affine of a label image
ImageAffines == {TranslationAffine}

Images == [data : Volumes, affine : ImageAffines]

RECURSIVE RSum(_)
RSum(s) == IF s = <<>> THEN RInt(0) ELSE RAdd(Head(s), RSum(Tail(s)))

\* np.dot(a, x): a an integer m x k matrix, x a k x n array of floats
Dot(a, x) ==
    LET m == NRows(a)
        k == NCols(a)
        n == NCols(x)
    IN  Arr2(m, n, [p \in 1..(m * n) |->
            LET i == ((p - 1) \div n) + 1
                j == ((p - 1) % n) + 1
            IN  RSum([l \in 1..k |-> RMulInt(At(a, i, l), At(x, l, j))])])

\* the rows of a square integer matrix, without row i and column j
MinorRows(M, i, j) ==
    LET n == Len(M)
    IN  [r \in 1..(n - 1) |->
            [c \in 1..(n - 1) |->
                M[IF r < i THEN r ELSE r + 1][IF c < j THEN c ELSE c + 1]]]

Sign(k) == IF k % 2 = 0 THEN 1 ELSE -1

RECURSIVE ISum(_)
ISum(s) == IF s = <<>> THEN 0 ELSE Head(s) + ISum(Tail(s))

RECURSIVE DetRows(_)
DetRows(M) ==
    IF Len(M) = 1 THEN M[1][1]
    ELSE ISum([j \in 1..Len(M) |-> Sign(1 + j) * M[1][j] * DetRows(MinorRows(M, 1, j))])

Rows(a) == [i \in 1..NRows(a) |-> Row(a, i)]

Det(a) == DetRows(Rows(a))

Cofactor(M, i, j) == Sign(i + j) * DetRows(MinorRows(M, i, j))

\* adj[j][i] = Cofactor(i, j): the inverse of a is adj / Det(a)
Adjugate(a) ==
    LET M == Rows(a)
    IN  [j \in 1..NRows(a) |-> [i \in 1..NRows(a) |-> Cofactor(M, i, j)]]

SquareMatrices == {m \in Matrices : NRows(m) = NCols(m)}

\* the determinant and the adjugate of the matrices of the model, computed
\* once
DetOf == [m \in SquareMatrices |-> Det(m)]

AdjugateOf == [m \in SquareMatrices |-> Adjugate(m)]

\* the exact solution x of a . x = b (a square, Det(a) # 0, b floats):
\* x = adj(a) . b / Det(a)
Solve(a, b) ==
    LET m == NRows(a)
        n == NCols(b)
        d == DetOf[a]
        adj == AdjugateOf[a]
    IN  Arr2(m, n, [p \in 1..(m * n) |->
            LET j == ((p - 1) \div n) + 1
                c == ((p - 1) % n) + 1
            IN  RDivInt(RSum([i \in 1..m |-> RMulInt(adj[j][i], At(b, i, c))]), d)])

\* The solver works in float64: what it returns is the exact solution up
\* to a rounding error far below 1, of either sign (e = 1, -1) or none
\* (e = 0).  Cast to int towards zero, only an exact integer can land on
\* another value: the neighbour nearer to zero.
TruncFloat(q, e) ==
    LET t == Trunc(q)
    IN  IF q[2] # 1 THEN t
        ELSE IF e = 1 /\ t < 0 THEN t + 1
        ELSE IF e = -1 /\ t > 0 THEN t - 1
        ELSE t

FloatErrors == {-1, 0, 1} \X {-1, 0, 1} \X {-1, 0, 1}

(***************************************************************************)
(* _check_coord_inputs, ijk_to_xyz, xyz_to_ijk                             *)
(***************************************************************************)
\* a transposition that was forgotten
NoTranspose(a) == a

\* the second transposition of _check_coord_inputs (line 228)
Reorient(a) == Transpose(a)

CheckCoordInputs(coords) ==
    LET c1 == Transpose(AtLeast2d(coords))
    IN  IF 3 \notin {NRows(c1), NCols(c1)} THEN Err("ValueError")
        ELSE LET c2 == IF NRows(c1) # 3 THEN Reorient(c1) ELSE c1
             IN  Ok(Arr2(NRows(c2) + 1, NCols(c2),
                         c2.data \o [j \in 1..NCols(c2) |-> RInt(1)]))

IjkToXyz(coords, affine) ==
    LET c == CheckCoordInputs(coords)
    IN  IF ~c.ok THEN c
        ELSE IF NCols(affine) # NRows(c.val) THEN Err("ValueError")
        ELSE Ok(Transpose(FirstRows(Dot(affine, c.val), 3)))

\* a solve that multiplies instead
SolveByDot(a, b) == Dot(a, b)

\* np.linalg.solve(affine, coords) of line 274, once the shapes fit
LinalgSolve(a, b) == Solve(a, b)

\* xyz_to_ijk up to the cast: np.linalg.solve(affine, coords)[:3].T
SolveCoords(coords, affine) ==
    LET c == CheckCoordInputs(coords)
    IN  IF ~c.ok THEN c
        ELSE IF NRows(affine) # NCols(affine) THEN Err("LinAlgError")
        ELSE IF NRows(affine) # NRows(c.val) THEN Err("ValueError")
        ELSE IF DetOf[affine] = 0 THEN Err("LinAlgError")
        ELSE Ok(Transpose(FirstRows(LinalgSolve(affine, c.val), 3)))

\* .astype(int) of what SolveCoords gave; e: the rounding error of the
\* solver on each axis
AsTypeInt(x, e) ==
    IF ~x.ok THEN x
    ELSE Ok(Arr2(NRows(x.val), NCols(x.val),
                 [p \in 1..Len(x.val.data) |->
                     RInt(TruncFloat(x.val.data[p], e[((p - 1) % 3) + 1]))]))

(***************************************************************************)
(* get_centroids                                                           *)
(***************************************************************************)
RECURSIVE SumAxis(_, _)
SumAxis(S, a) ==
    IF S = {} THEN 0
    ELSE LET x == CHOOSE x \in S : TRUE
         IN  x[a] + SumAxis(S \ {x}, a)

\* image_data == label: the voxels that carry the label
Mask(data, label) == {x \in DOMAIN data : data[x] = label}

\* scipy's center_of_mass of a boolean mask: per axis, the sum of the
\* indices of the true voxels over their number; 0.0 / 0 when none is true
CenterOfMass(mask) == [a \in 1..3 |-> Rat(SumAxis(mask, a), Cardinality(mask))]

GetCentroids(image, labels, image_space) ==
    LET wanted == IF labels.given THEN labels.v ELSE GetUniqueLabels(image)
    IN  IF wanted = <<>> THEN Err("ValueError")
        ELSE LET stack == [n \in 1..Len(wanted) |->
                              CenterOfMass(Mask(image.data, wanted[n]))]
                 centroids == Transpose(Arr2(Len(wanted), 3, Flatten(stack)))
             IN  IF image_space THEN IjkToXyz(centroids, image.affine)
                 ELSE Ok(centroids)

(***************************************************************************)
(* closest_centroid.  Coordinates are integers here (any collection of     *)
(* rationals is one of integers in a smaller unit, and the nearest         *)
(* centroid does not depend on the unit); distances are kept squared, the  *)
(* square root being strictly increasing on them.                          *)
(***************************************************************************)
CentroidPoints ==
    {<<0, 0, 0>>, <<2, 0, 0>>, <<0, 2, 0>>, <<1, 1, 0>>, <<1, 1, 3>>}

\* a distance that forgets the last axis
SqDistFlat(u, v) == ISum([a \in 1..(Len(u) - 1) |-> (u[a] - v[a]) * (u[a] - v[a])])

SqDist(u, v) == ISum([a \in 1..Len(u) |-> (u[a] - v[a]) * (u[a] - v[a])])

\* scipy's cdist(xa, xb): the distance of every row of xa to every row of
\* xb; the rows must have the same length
CDist(xa, xb) ==
    IF NCols(xa) # NCols(xb) THEN Err("ValueError")
    ELSE LET m == NRows(xa)
             n == NRows(xb)
         IN  Ok(Arr2(m, n, [p \in 1..(m * n) |->
                    SqDist(Row(xa, ((p - 1) \div n) + 1), Row(xb, ((p - 1) % n) + 1))]))

RECURSIVE ArgMinFrom(_, _, _)
ArgMinFrom(s, i, best) ==
    IF i > Len(s) THEN best
    ELSE ArgMinFrom(s, i + 1, IF s[i] < s[best] THEN i ELSE best)

RECURSIVE ArgMinLastFrom(_, _, _)
ArgMinLastFrom(s, i, best) ==
    IF i > Len(s) THEN best
    ELSE ArgMinLastFrom(s, i + 1, IF s[i] <= s[best] THEN i ELSE best)

\* an argmin that keeps the last minimum
ArgMinLast(s) == ArgMinLastFrom(s, 2, 1) - 1

\* ndarray.argmin of the flattened array: the 0-based position of the first
\* minimum
ArgMin(s) == ArgMinFrom(s, 2, 1) - 1

ClosestCentroid(coords, centroids) ==
    LET d == CDist(Transpose(AtLeast2d(coords)), Transpose(centroids))
    IN  IF ~d.ok THEN d ELSE Ok(ArgMin(d.val.data))

(***************************************************************************)
(* expand_roi                                                              *)
(***************************************************************************)
\* np.arange(a, b, dtype=int)
Arange(a, b) == IF b > a THEN [i \in 1..(b - a) |-> a + i - 1] ELSE <<>>

\* expand(x, d) of line 301, x one row of the 2-D coords.  np.arange takes
\* scalar bounds: an array of one element stands for its element, an array
\* of more raises
Expand(x, d) ==
    IF Len(x) # 1 THEN Err("TypeError")
    ELSE Ok(Arange(x[1] - d, x[1] + d + 1))

\* itertools.product(*pools): an odometer over the pools
ProductNew(pools) ==
    [pools |-> pools,
     idx   |-> [i \in 1..Len(pools) |-> 1],
     state |-> IF \E i \in 1..Len(pools) : pools[i] = <<>> THEN "stopped" ELSE "fresh"]

ProductTuple(g) == [i \in 1..Len(g.pools) |-> g.pools[i][g.idx[i]]]

\* next(g): the generator after the pull, and what the pull gave
ProductNext(g) ==
    IF g.state = "stopped" THEN [gen |-> g, some |-> FALSE, v |-> <<>>]
    ELSE IF g.state = "fresh"
    THEN [gen |-> [g EXCEPT !.state = "running"], some |-> TRUE, v |-> ProductTuple(g)]
    ELSE LET movable == {i \in 1..Len(g.pools) : g.idx[i] < Len(g.pools[i])}
         IN  IF movable = {}
             THEN [gen |-> [g EXCEPT !.state = "stopped"], some |-> FALSE, v |-> <<>>]
             ELSE LET i == CHOOSE i \in movable : \A j \in movable : j <= i
                      g2 == [g EXCEPT !.idx = [j \in 1..Len(g.pools) |->
                                 IF j < i THEN g.idx[j]
                                 ELSE IF j = i THEN g.idx[j] + 1 ELSE 1]]
                  IN  [gen |-> g2, some |-> TRUE, v |-> ProductTuple(g2)]

\* list(g)
RECURSIVE Drain(_)
Drain(g) ==
    LET n == ProductNext(g)
    IN  IF n.some THEN <<n.v>> \o Drain(n.gen) ELSE <<>>

NoGen == [pools |-> <<>>, idx |-> <<>>, state |-> "none"]

\* what expand_roi returns, and the generator it leaves with the caller
ExpandRoi(coords, dilation, return_array) ==
    LET rows == Rows(AtLeast2d(coords))
        pools == [i \in 1..Len(rows) |-> Expand(rows[i], dilation)]
    IN  IF \E i \in 1..Len(rows) : ~pools[i].ok
        THEN [ret |-> Err("TypeError"), gen |-> NoGen]
        ELSE LET g == ProductNew([i \in 1..Len(rows) |-> pools[i].val])
             IN  IF return_array
                 THEN LET l == Drain(g)
                      IN  [ret |-> Ok(Arr2(Len(l), Len(rows), Flatten(l))), gen |-> NoGen]
                 ELSE [ret |-> Ok(Arr1(<<>>)), gen |-> g]

(***************************************************************************)
(* The arguments of the calls.                                             *)
(***************************************************************************)
RECURSIVE SeqsUpTo(_, _)
\* the sequences over S of length 1..n
SeqsUpTo(S, n) ==
    IF n = 0 THEN {}
    ELSE LET P == SeqsUpTo(S, n - 1)
         IN  {<<x>> : x \in S} \cup {Append(q, x) : q \in P, x \in S}

\* a batch of points as an array: one point per row ("Nx3"), one per
\* column ("3xN"), a single point as a 1-D array ("flat"); and arrays no
\* axis of which need be 3: the points cut to two components ("Nx2"),
\* a single such point as a 1-D array ("flat2")
MakeCoords(points, layout) ==
    LET n == Len(points)
        full == [i \in 1..(3 * n) |-> (points[((i - 1) \div 3) + 1][((i - 1) % 3) + 1])]
        cut == [i \in 1..(2 * n) |-> (points[((i - 1) \div 2) + 1][((i - 1) % 2) + 1])]
    IN  CASE layout = "Nx3" -> Arr2(n, 3, full)
          [] layout = "3xN" -> Transpose(Arr2(n, 3, full))
          [] layout = "flat" -> Arr1(full)
          [] layout = "Nx2" -> Arr2(n, 2, cut)
          [] layout = "flat2" -> Arr1(cut)

Batches == SeqsUpTo(PointSet, MaxN)

CoordArgs ==
    {[points |-> ps, layout |-> l] :
        ps \in Batches, l \in {"Nx3", "3xN", "Nx2"}}
    \cup {[points |-> <<p>>, layout |-> l] : p \in PointSet, l \in {"flat", "flat2"}}

NoOrigin == [has |-> FALSE, points |-> <<>>, layout |-> "none"]

\* the same array with float elements
AsFloats(a) == [shape |-> a.shape, data |-> [i \in DOMAIN a.data |-> RInt(a.data[i])]]

LabelArgs ==
    {[given |-> FALSE, v |-> <<>>], [given |-> TRUE, v |-> <<>>]}
    \cup {[given |-> TRUE, v |-> q] : q \in SeqsUpTo(LabelValues, MaxReq)}

CallsGetUniqueLabels == {[fn |-> "get_unique_labels", image |-> im] : im \in Images}

CallsGetCentroids ==
    {[fn |-> "get_centroids", image |-> im, labels |-> l, image_space |-> s] :
        im \in Images, l \in LabelArgs, s \in BOOLEAN}

CallsClosestCentroid ==
    {[fn |-> "closest_centroid", query |-> q, layout |-> l,
      coords |-> MakeCoords(<<q>>, l), points |-> cs,
      centroids |-> MakeCoords(cs, "3xN")] :
        q \in CentroidPoints, l \in {"3xN", "Nx3", "flat"},
        cs \in SeqsUpTo(CentroidPoints, MaxCentroids)}

CallsIjkToXyz ==
    {[fn |-> "ijk_to_xyz", points |-> a.points, layout |-> a.layout,
      coords |-> AsFloats(MakeCoords(a.points, a.layout)), affine |-> m] :
        a \in CoordArgs, m \in Matrices}

CallsXyzToIjk ==
    {[fn |-> "xyz_to_ijk", points |-> a.points, layout |-> a.layout,
      coords |-> AsFloats(MakeCoords(a.points, a.layout)), affine |-> m,
      origin |-> NoOrigin] :
        a \in CoordArgs, m \in Matrices}

CallsExpandRoi ==
    {[fn |-> "expand_roi", point |-> p, layout |-> l,
      coords |-> MakeCoords(<<p>>, l), dilation |-> d, return_array |-> r] :
        p \in PointSet, l \in {"flat", "3xN", "Nx3"},
        d \in 0..MaxDilation, r \in BOOLEAN}

NoRet == Err("none")

(***************************************************************************)
(* The state machine.                                                      *)
(***************************************************************************)
Start ==
    /\ pc = "call"
    /\ ret = NoRet
    /\ gen = NoGen
    /\ pulled = <<>>

InitLabels == Start /\ call \in CallsGetUniqueLabels \cup CallsGetCentroids

InitNearest == Start /\ call \in CallsClosestCentroid

InitCoords == Start /\ call \in CallsIjkToXyz \cup CallsXyzToIjk

InitRoi == Start /\ call \in CallsExpandRoi

Init == InitLabels \/ InitNearest \/ InitCoords \/ InitRoi

Return(r) ==
    /\ pc' = "done"
    /\ ret' = r
    /\ UNCHANGED <<call, gen, pulled>>

CallGetUniqueLabels ==
    /\ pc = "call" /\ call.fn = "get_unique_labels"
    /\ Return(Ok(Arr1(GetUniqueLabels(call.image))))

CallGetCentroids ==
    /\ pc = "call" /\ call.fn = "get_centroids"
    /\ Return(GetCentroids(call.image, call.labels, call.image_space))

CallClosestCentroid ==
    /\ pc = "call" /\ call.fn = "closest_centroid"
    /\ Return(ClosestCentroid(call.coords, call.centroids))

CallIjkToXyz ==
    /\ pc = "call" /\ call.fn = "ijk_to_xyz"
    /\ Return(IjkToXyz(call.coords, call.affine))

CallXyzToIjk ==
    /\ pc = "call" /\ call.fn = "xyz_to_ijk"
    /\ LET x == SolveCoords(call.coords, call.affine)
       IN  \E e \in FloatErrors : Return(AsTypeInt(x, e))

\* the caller hands the world coordinates ijk_to_xyz returned to
\* xyz_to_ijk, with the same affine
RoundTrip ==
    /\ pc = "done" /\ call.fn = "ijk_to_xyz" /\ ret.ok
    /\ pc' = "call"
    /\ call' = [fn |-> "xyz_to_ijk", points |-> <<>>, layout |-> "result",
                coords |-> ret.val, affine |-> call.affine,
                origin |-> [has |-> TRUE, points |-> call.points, layout |-> call.layout]]
    /\ ret' = NoRet
    /\ UNCHANGED <<gen, pulled>>

CallExpandRoi ==
    /\ pc = "call" /\ call.fn = "expand_roi"
    /\ LET r == ExpandRoi(call.coords, call.dilation, call.return_array)
       IN  /\ pc' = "done"
           /\ ret' = r.ret
           /\ gen' = r.gen
    /\ UNCHANGED <<call, pulled>>

\* the caller pulls one value from the generator: next(gen)
GenNext ==
    /\ pc = "done" /\ call.fn = "expand_roi" /\ ret.ok /\ ~call.return_array
    /\ LET n == ProductNext(gen)
       IN  /\ gen' = n.gen
           /\ pulled' = IF n.some THEN Append(pulled, n.v) ELSE pulled
    /\ UNCHANGED <<pc, call, ret>>

NextLabels == CallGetUniqueLabels \/ CallGetCentroids

NextNearest == CallClosestCentroid

NextCoords == CallIjkToXyz \/ CallXyzToIjk \/ RoundTrip

NextRoi == CallExpandRoi \/ GenNext

Next == NextLabels \/ NextNearest \/ NextCoords \/ NextRoi

\* one specification per group of functions, and the whole file
SpecLabels == InitLabels /\ [][NextLabels]_vars

SpecNearest == InitNearest /\ [][NextNearest]_vars

SpecCoords == InitCoords /\ [][NextCoords]_vars

SpecRoi == InitRoi /\ [][NextRoi]_vars

Spec == Init /\ [][Next]_vars


(***************************************************************************)
(* What the properties below speak of.                                     *)
(***************************************************************************)
Done(fn) == pc = "done" /\ call.fn = fn

\* the values of a volume other than 0
NonZeroValues(data) == {data[x] : x \in DOMAIN data} \ {0}

\* the data model's invariant of a label volume: 0 is the background, the
\* region identifiers are positive
ValidVolume(data) == \A x \in DOMAIN data : data[x] >= 0

\* the voxels of region l
Region(data, l) == {x \in DOMAIN data : data[x] = l}

\* the labels a get_centroids call asks for
Requested(c) == IF c.labels.given THEN c.labels.v ELSE GetUniqueLabels(c.image)

\* q is the mean, over the voxels of S, of their index on axis a
IsMean(q, S, a) == q[2] > 0 /\ q[1] * Cardinality(S) = q[2] * SumAxis(S, a)

\* column n of the 3 x N result is the centroid of region l
IsCentroid(r, n, data, l) == \A a \in 1..3 : IsMean(At(r, a, n), Region(data, l), a)

\* the squared Euclidean distance of two 3-component points
Dist2(p, q) ==
    (p[1] - q[1]) * (p[1] - q[1]) + (p[2] - q[2]) * (p[2] - q[2])
        + (p[3] - q[3]) * (p[3] - q[3])

\* the first three components of A . [p; 1]
ApplyAffine(A, p) ==
    [i \in 1..3 |-> RInt(At(A, i, 1) * p[1] + At(A, i, 2) * p[2] + At(A, i, 3) * p[3] + At(A, i, 4))]

\* the N x 3 array whose row n is ApplyAffine(A, points[n])
ExpectedXyz(A, points) ==
    Arr2(Len(points), 3, Flatten([n \in 1..Len(points) |-> ApplyAffine(A, points[n])]))

\* the rows of a 3 x 3 array of integers-as-floats, as points
RowsAsPoints(a) == [i \in 1..NRows(a) |-> [j \in 1..NCols(a) |-> At(a, i, j)[1]]]

Is4x4(A) == A.shape = <<4, 4>>

\* an invertible affine: 4 x 4, last row 0 0 0 1, determinant not 0
InvertibleAffine(A) == Is4x4(A) /\ Row(A, 4) = AffineRow /\ Det(A) # 0

\* no axis of the coordinate array has length 3
NoAxisOf3(a) == \A i \in 1..NDim(a) : a.shape[i] # 3

\* the cube of half-width d around c, in nested axis order: first axis
\* slowest, last axis fastest
CubeList(c, d) ==
    LET w == 2 * d + 1
    IN  [n \in 1..(w * w * w) |->
            <<c[1] - d + ((n - 1) \div (w * w)),
              c[2] - d + (((n - 1) \div w) % w),
              c[3] - d + ((n - 1) % w)>>]

CubeSet(c, d) ==
    (c[1] - d .. c[1] + d) \X (c[2] - d .. c[2] + d) \X (c[3] - d .. c[3] + d)

IsPrefix(s, t) == Len(s) <= Len(t) /\ s = SubSeq(t, 1, Len(s))

(***************************************************************************)
(* C1.  For every label volume (values >= 0, 0 the background)             *)
(* get_unique_labels raises nothing and returns a sequence without 0,      *)
(* strictly ascending, with as many entries as the volume has distinct     *)
(* non-zero values; an all-zero volume gives the empty sequence.           *)
(***************************************************************************)
C1_UniqueLabels ==
    (Done("get_unique_labels") /\ ValidVolume(call.image.data)) =>
        /\ ret.ok
        /\ \A i \in 1..Len(ret.val.data) : ret.val.data[i] # 0
        /\ \A i \in 1..(Len(ret.val.data) - 1) : ret.val.data[i] < ret.val.data[i + 1]
        /\ Len(ret.val.data) = Cardinality(NonZeroValues(call.image.data))
        /\ (NonZeroValues(call.image.data) = {} => ret.val.data = <<>>)

\* a volume with background and the two regions 1 and 2 gave <<1, 2>>
C1_Witness ==
    /\ Done("get_unique_labels")
    /\ NonZeroValues(call.image.data) = {1, 2}
    /\ \E x \in DOMAIN call.image.data : call.image.data[x] = 0
    /\ ret.ok /\ ret.val.data = <<1, 2>>

(***************************************************************************)
(* C2.  get_centroids(image_space=False), asked for labels that are all    *)
(* present in the volume (by default those of get_unique_labels), returns  *)
(* one centroid per requested label, in the order requested, the centroid  *)
(* of label L being the per-axis mean of the indices of the voxels whose   *)
(* value is L.                                                             *)
(***************************************************************************)
C2_Centroids ==
    (/\ Done("get_centroids") /\ ~call.image_space
     /\ \A n \in 1..Len(Requested(call)) : Region(call.image.data, Requested(call)[n]) # {}) =>
        /\ ret.ok
        /\ ret.val.shape = <<3, Len(Requested(call))>>
        /\ \A n \in 1..Len(Requested(call)) :
               IsCentroid(ret.val, n, call.image.data, Requested(call)[n])

\* Not a claim: C2 with at least one label requested.
CentroidsOfNonEmptyRequest ==
    (Done("get_centroids") /\ Requested(call) # <<>>) => C2_Centroids

\* two regions asked for against their order in the volume, one of them a
\* single voxel
CentroidsOfNonEmptyRequestSeen ==
    /\ Done("get_centroids") /\ ~call.image_space
    /\ call.labels.given /\ call.labels.v = <<2, 1>>
    /\ Region(call.image.data, 2) = {<<1, 1, 1>>}
    /\ Region(call.image.data, 1) # {}
    /\ ret.ok /\ Col(ret.val, 1) = <<RInt(1), RInt(1), RInt(1)>>

(***************************************************************************)
(* C8.  get_centroids, asked for a label that no voxel carries, raises an  *)
(* error: it returns no collection, and no NaN in place of the centroid.   *)
(***************************************************************************)
C8_AbsentLabelRaises ==
    (/\ Done("get_centroids")
     /\ \E n \in 1..Len(Requested(call)) : Region(call.image.data, Requested(call)[n]) = {}) =>
        ~ret.ok

\* Not a claim: what the code does instead; the centroid of an absent
\* label is NaN on every axis, and nothing is raised.
AbsentLabelIsNaN ==
    (Done("get_centroids") /\ ~call.image_space) =>
        \A n \in 1..Len(Requested(call)) :
            Region(call.image.data, Requested(call)[n]) = {} =>
                ret.ok /\ \A a \in 1..3 : IsNaN(At(ret.val, a, n))

(***************************************************************************)
(* C3.  closest_centroid, given the query as a 3 x 1 column and N >= 1     *)
(* centroids, returns a position whose centroid is at the minimum          *)
(* distance of the query, and the lowest such position.                    *)
(***************************************************************************)
C3_Nearest ==
    (Done("closest_centroid") /\ call.layout = "3xN") =>
        /\ ret.ok
        /\ ret.val \in 0..(Len(call.points) - 1)
        /\ \A j \in 1..Len(call.points) :
               Dist2(call.query, call.points[ret.val + 1]) <= Dist2(call.query, call.points[j])
        /\ \A j \in 1..ret.val :
               Dist2(call.query, call.points[ret.val + 1]) < Dist2(call.query, call.points[j])

\* two different centroids at the same distance of the query: the first
C3_Witness ==
    /\ Done("closest_centroid") /\ call.layout = "3xN"
    /\ Len(call.points) = 2 /\ call.points[1] # call.points[2]
    /\ Dist2(call.query, call.points[1]) = Dist2(call.query, call.points[2])
    /\ ret.ok /\ ret.val = 0

(***************************************************************************)
(* C4.  As claimed: a query equal to centroid k gives k, for every         *)
(* position k of every collection.                                         *)
(***************************************************************************)
C4_Original ==
    (Done("closest_centroid") /\ call.layout = "3xN") =>
        \A k \in 1..Len(call.points) :
            call.points[k] = call.query => ret.ok /\ ret.val = k - 1

(***************************************************************************)
(* C4, amended.  A query equal to centroid k gives the lowest position     *)
(* that holds a centroid equal to centroid k: k itself when no earlier     *)
(* centroid equals it.                                                     *)
(***************************************************************************)
C4_Amended ==
    (Done("closest_centroid") /\ call.layout = "3xN") =>
        \A k \in 1..Len(call.points) :
            call.points[k] = call.query =>
                /\ ret.ok
                /\ call.points[ret.val + 1] = call.points[k]
                /\ \A j \in 1..ret.val : call.points[j] # call.points[k]
                /\ ((\A j \in 1..(k - 1) : call.points[j] # call.points[k]) => ret.val = k - 1)

\* the query is the centroid found twice in the collection: the first
C4_Witness ==
    /\ Done("closest_centroid") /\ call.layout = "3xN"
    /\ Len(call.points) = 2
    /\ call.points[1] = call.query /\ call.points[2] = call.query
    /\ ret.ok /\ ret.val = 0

(***************************************************************************)
(* C5.  As claimed: for every N >= 1 and every 4 x 4 matrix, ijk_to_xyz    *)
(* returns the same N x 3 array for the batch given as N x 3 and as        *)
(* 3 x N, its row n being the first three components of A . [p_n; 1].      *)
(***************************************************************************)
C5_Original ==
    (Done("ijk_to_xyz") /\ call.layout \in {"Nx3", "3xN"} /\ Is4x4(call.affine)) =>
        ret.ok /\ ret.val = ExpectedXyz(call.affine, call.points)

(***************************************************************************)
(* C5, amended.  The same for every N other than 3; a 3 x 3 array is       *)
(* always read as N x 3, one point per row, so the transpose of a batch    *)
(* of three points gives the transform of its rows.                        *)
(***************************************************************************)
C5_Amended ==
    (Done("ijk_to_xyz") /\ call.layout \in {"Nx3", "3xN"} /\ Is4x4(call.affine)) =>
        /\ ret.ok
        /\ Len(call.points) # 3 => ret.val = ExpectedXyz(call.affine, call.points)
        /\ Len(call.points) = 3 =>
               ret.val = ExpectedXyz(call.affine, RowsAsPoints(call.coords))

\* two points given as 3 x 2, translated by (10, 20, 30)
C5_Witness ==
    /\ Done("ijk_to_xyz") /\ call.layout = "3xN" /\ call.affine = TranslationAffine
    /\ call.points = <<<<0, 0, 0>>, <<1, 2, 3>>>>
    /\ ret.ok
    /\ ret.val = Arr2(2, 3, <<RInt(10), RInt(20), RInt(30), RInt(11), RInt(22), RInt(33)>>)

(***************************************************************************)
(* C6.  Round trip: for every invertible affine A and every integer        *)
(* coordinate c, xyz_to_ijk(ijk_to_xyz(c, A), A) is integer-valued and     *)
(* every component of it is within 1 of that of c.                         *)
(***************************************************************************)
C6_RoundTrip ==
    (/\ Done("xyz_to_ijk") /\ call.origin.has
     /\ Len(call.origin.points) = 1 /\ call.origin.layout \in {"Nx3", "3xN", "flat"}
     /\ InvertibleAffine(call.affine)) =>
        /\ ret.ok
        /\ ret.val.shape = <<1, 3>>
        /\ \A a \in 1..3 :
               /\ At(ret.val, 1, a)[2] = 1
               /\ Abs(At(ret.val, 1, a)[1] - call.origin.points[1][a]) <= 1

\* a coordinate with a negative component, through an affine that gives
\* negative world values, came back
C6_Witness ==
    /\ Done("xyz_to_ijk") /\ call.origin.has
    /\ call.origin.points = <<<<-1, 0, 2>>>> /\ call.origin.layout = "flat"
    /\ call.affine = RotationAffine
    /\ call.coords.data = <<RInt(-5), RInt(-1), RInt(6)>>
    /\ ret.ok /\ ret.val.data = <<RInt(-1), RInt(0), RInt(2)>>

(***************************************************************************)
(* C9.  Every shape or precondition violation of the transforms ends in    *)
(* an error: a coordinate array without an axis of length 3, an affine     *)
(* that is not 4 x 4, and for xyz_to_ijk a singular affine.                *)
(***************************************************************************)
C9_ShapeErrors ==
    (/\ pc = "done" /\ call.fn \in {"ijk_to_xyz", "xyz_to_ijk"}
     /\ \/ NoAxisOf3(call.coords)
        \/ ~Is4x4(call.affine)
        \/ (call.fn = "xyz_to_ijk" /\ Is4x4(call.affine) /\ Det(call.affine) = 0)) =>
        ~ret.ok

\* Not a claim: the violations the code does answer with an error; all of
\* them but an affine of the shape m x 4 handed to ijk_to_xyz.
ShapeErrorsRaised ==
    (/\ pc = "done" /\ call.fn \in {"ijk_to_xyz", "xyz_to_ijk"}
     /\ \/ NoAxisOf3(call.coords)
        \/ (~Is4x4(call.affine) /\ (call.fn = "xyz_to_ijk" \/ NCols(call.affine) # 4))
        \/ (call.fn = "xyz_to_ijk" /\ Is4x4(call.affine) /\ Det(call.affine) = 0)) =>
        ~ret.ok

(***************************************************************************)
(* C7.  expand_roi, given one coordinate c as a (3,) sequence and a        *)
(* dilation d >= 0, returns the (2d+1)^3 distinct tuples of the cube of    *)
(* half-width d around c, c among them.                                    *)
(***************************************************************************)
C7_Cube ==
    (Done("expand_roi") /\ call.layout = "flat" /\ call.return_array) =>
        /\ ret.ok
        /\ ret.val.shape = <<Cardinality(CubeSet(call.point, call.dilation)), 3>>
        /\ {Row(ret.val, n) : n \in 1..NRows(ret.val)} = CubeSet(call.point, call.dilation)
        /\ call.point \in {Row(ret.val, n) : n \in 1..NRows(ret.val)}

\* Not a claim: the cube is what a coordinate given as a 3 x 1 column gets.
ColumnCube ==
    (Done("expand_roi") /\ call.layout = "3xN" /\ call.return_array) =>
        /\ ret.ok
        /\ ret.val = Arr2((2 * call.dilation + 1) * (2 * call.dilation + 1) * (2 * call.dilation + 1), 3,
                          Flatten(CubeList(call.point, call.dilation)))

(***************************************************************************)
(* C10.  For every coordinate and dilation, expand_roi(return_array=False) *)
(* returns a lazy sequence; pulled one value at a time it yields the       *)
(* tuples of the cube in nested axis order (first axis slowest), each      *)
(* once, and once exhausted it has yielded all of them and yields nothing  *)
(* more.                                                                   *)
(***************************************************************************)
C10_Lazy ==
    (Done("expand_roi") /\ ~call.return_array) =>
        /\ ret.ok
        /\ IsPrefix(pulled, CubeList(call.point, call.dilation))
        /\ gen.state = "stopped" => pulled = CubeList(call.point, call.dilation)

\* Not a claim: C10 for a coordinate given as a 3 x 1 column.
ColumnLazy == (Done("expand_roi") /\ call.layout = "3xN") => C10_Lazy

\* once stopped, a generator stays as it is
StoppedStays == [][gen.state = "stopped" => gen' = gen /\ pulled' = pulled]_vars

====
